---- MODULE Spec2Model ----
(***************************************************************************)
(* Model of the two evaluation scripts of coug_fgo:                        *)
(*   eval/plots/traj_plot.py        (trajectory pipeline)                  *)
(*   eval/plots/traj_bench_plot.py  (metric pipeline)                      *)
(* One behaviour runs one of the two scripts (prog).  Directory names are  *)
(* sequences of one-character strings, so that Python's substring test     *)
(* `key in parent` is a real search.                                       *)
(***************************************************************************)
EXTENDS Integers, Sequences, FiniteSets, TLC

VARIABLES
    prog,           \* which script runs: "traj" or "bench"
    root_exists,    \* bags_root.exists()
    pc,             \* position of the running script
    scanned,        \* glob.glob has been called at least once
    loaded,         \* an artifact has been opened (read_csv / load_res_file)
    saved,          \* the files written by plt.savefig
    skipped,        \* the agents reported "No truth trajectory found"
    present_algos,  \* local of plot_auv / generate_plots
    missing_algos,  \* local of plot_auv / generate_plots
    \* ---- traj_plot.py
    n_units,        \* number of agent directory entries main iterates over
    ui,             \* index of the entry main is at
    auv_name,       \* parameter of plot_auv: the entry it was called for
    zips,           \* local of load_trajectories: the glob result
    zi,             \* index of the archive the for loop is at
    algo_label,     \* local of load_trajectories
    est_trajs,      \* local of load_trajectories: dict, insertion ordered
    gt_traj,        \* local of load_trajectories
    drawn,          \* the labels handed to plot.traj, in call order
    \* ---- traj_bench_plot.py
    files,          \* local of load_data: the glob result
    fi,             \* index of the file the for loop is at
    data_store,     \* local of load_data
    mi,             \* index into METRICS_CONFIG in generate_plots
    plotted         \* per metric file name, the data frame handed to seaborn

vars == <<prog, root_exists, pc, scanned, loaded, saved, skipped, present_algos,
          missing_algos, n_units, ui, auv_name, zips, zi, algo_label, est_trajs,
          gt_traj, drawn, files, fi, data_store, mi, plotted>>

sharedVars == <<prog, root_exists>>
trajLocals == <<auv_name, zips, zi, algo_label, est_trajs, gt_traj>>
benchVars == <<files, fi, data_store, mi, plotted>>

(***************************************************************************)
(* Bounds                                                                  *)
(***************************************************************************)
NumUnits == 2      \* agent directory entries under bags/*/evo
MaxZips == 2       \* archives found by one glob of load_trajectories
MaxTokens == 2     \* tokens a generated directory name is made of
MaxFiles == 3      \* metric files found by the glob of load_data

(***************************************************************************)
(* Helpers on sequences                                                    *)
(***************************************************************************)
Range(s) == {s[i] : i \in 1..Len(s)}

\* Python `key in s` on strings
Contains(key, s) ==
    \E i \in 0..(Len(s) - Len(key)) : SubSeq(s, i + 1, i + Len(key)) = key

SeqsUpTo(S, n) == UNION {[1..k -> S] : k \in 0..n}

None == "None"
NoTraj == [kind |-> "none", src |-> 0]

(***************************************************************************)
(* traj_plot.py: constants                                                 *)
(***************************************************************************)
ALGORITHMS == <<"FGO", "TM", "EKF", "UKF", "IEKF", "DVL">>

k_fgo == <<"f", "g", "o">>
k_tm == <<"t", "m">>
k_ekf == <<"e", "k", "f">>
k_ukf == <<"u", "k", "f">>
k_iekf == <<"i", "e", "k", "f">>
k_dvl == <<"d", "v", "l">>

\* the mapping with iekf tested before ekf
NAME_MAPPING_iekfFirst ==
    << <<k_fgo, "FGO">>, <<k_tm, "TM">>, <<k_iekf, "IEKF">>,
       <<k_ekf, "EKF">>, <<k_ukf, "UKF">>, <<k_dvl, "DVL">> >>

\* dict in insertion order, which is the order .items() iterates in
NAME_MAPPING ==
    << <<k_fgo, "FGO">>, <<k_tm, "TM">>, <<k_ekf, "EKF">>,
       <<k_ukf, "UKF">>, <<k_iekf, "IEKF">>, <<k_dvl, "DVL">> >>

MARKER == <<"a", "p", "e", "_", "t", "r", "a", "n", "s">>

(***************************************************************************)
(* traj_plot.py: the archives an agent directory can hold                  *)
(***************************************************************************)
f_ape == <<"a", "p", "e", "_", "t", "r", "a", "n", "s", ".", "z", "i", "p">>
f_rpe == <<"r", "p", "e", "_", "t", "r", "a", "n", "s", ".", "z", "i", "p">>
p_gt == <<"g", "t">>
SEP == <<"/">>

\* res: what file_interface.load_res_file and the two info lookups do
\*   "fail"  an exception is raised (unreadable archive, missing info key)
\*   "full"  both the reference and the estimate entry are in res.trajectories
\*   "noref" the reference entry is not in res.trajectories
\*   "noest" the estimate entry is not in res.trajectories
Archive(parent, file, res) == [parent |-> parent, file |-> file, res |-> res]

CuratedParents == {k_fgo, k_ekf, p_gt}

CuratedArchives ==
    {Archive(p, f_ape, r) : p \in CuratedParents,
                            r \in {"fail", "full", "noref", "noest"}}
    \cup {Archive(k_fgo, f_rpe, "full")}

CuratedZipLists == SeqsUpTo(CuratedArchives, MaxZips)

\* directory names made of up to MaxTokens tokens
Tokens == {k_fgo, k_tm, k_ekf, k_ukf, k_iekf, k_dvl,
           <<"_">>, <<"i">>, <<"u">>, <<"x">>}

RECURSIVE Concat(_)
Concat(ss) == IF ss = <<>> THEN <<>> ELSE Head(ss) \o Concat(Tail(ss))

TokenNames == {Concat(ts) : ts \in SeqsUpTo(Tokens, MaxTokens)}

\* one archive with a generated name, alone or after an `ekf` archive
TokenZipLists ==
    {<<Archive(n, f_ape, "full")>> : n \in TokenNames}
    \cup {<<Archive(k_ekf, f_ape, "full"), Archive(n, f_ape, "full")>> :
              n \in TokenNames}

(***************************************************************************)
(* traj_plot.py: load_trajectories                                         *)
(***************************************************************************)
\* the path glob returns for an archive, below the agent directory
PathOf(z) == z.parent \o SEP \o z.file

\* line 101: "ape_trans" not in z
HasMarker(z) == Contains(MARKER, PathOf(z))

\* lines 106-110: first key of the mapping, in iteration order, that occurs
\* in the parent directory name; None when no key occurs
RECURSIVE FirstMatch(_, _)
FirstMatch(mapping, parent) ==
    IF mapping = <<>> THEN None
    ELSE IF Contains(Head(mapping)[1], parent) THEN Head(mapping)[2]
    ELSE FirstMatch(Tail(mapping), parent)

Resolve(parent) == FirstMatch(NAME_MAPPING, parent)

Recognized_always(label) == TRUE

\* line 112: algo_label not in ALGORITHMS
Recognized(label) == label \in Range(ALGORITHMS)

\* lines 116-119 raise
LoadRaises(z) == z.res = "fail"

\* res.trajectories of the archive at position j: entry name -> trajectory.
\* Trajectories are opaque; each is named by the archive it comes from.
ResTrajectories(z, j) ==
    [id \in (IF z.res = "noref" THEN {} ELSE {"ref"})
            \cup (IF z.res = "noest" THEN {} ELSE {"est"})
        |-> [kind |-> id, src |-> j]]

\* dict lookup helpers; a dict is a sequence of [key, val] in insertion order
DictKeys(d) == [i \in 1..Len(d) |-> d[i].key]
DictHas(d, k) == \E i \in 1..Len(d) : d[i].key = k
DictGet(d, k) == d[CHOOSE i \in 1..Len(d) : d[i].key = k].val

DictSet_keepFirst(d, k, v) ==
    IF DictHas(d, k) THEN d ELSE Append(d, [key |-> k, val |-> v])

\* line 126: est_trajs[algo_label] = ...
DictSet(d, k, v) ==
    IF DictHas(d, k)
    THEN [i \in 1..Len(d) |-> IF d[i].key = k THEN [key |-> k, val |-> v]
                                              ELSE d[i]]
    ELSE Append(d, [key |-> k, val |-> v])

GtUpdate_lastWins(gt, trajs) ==
    IF "ref" \in DOMAIN trajs THEN trajs["ref"] ELSE gt

\* lines 121-123
GtUpdate(gt, trajs) ==
    IF gt = NoTraj
    THEN (IF "ref" \in DOMAIN trajs THEN trajs["ref"] ELSE gt)
    ELSE gt

\* lines 125-126
EstUpdate(est, label, trajs) ==
    IF "est" \in DOMAIN trajs THEN DictSet(est, label, trajs["est"]) ELSE est

MissingAlgos_dropFirst(present) ==
    SelectSeq(Tail(ALGORITHMS), LAMBDA a : a \notin Range(present))

\* line 138
MissingAlgos(present) ==
    SelectSeq(ALGORITHMS, LAMBDA a : a \notin Range(present))

\* lines 152-153: the labels plot.traj is called for, in call order
DrawOrder(est) == SelectSeq(ALGORITHMS, LAMBDA a : DictHas(est, a))

BagsRootExists_always == TRUE

\* line 195 of traj_plot.py, line 149 of traj_bench_plot.py
BagsRootExists == root_exists

Renders_always(gt) == TRUE

\* line 143: the plot is made only with a ground truth
Renders(gt) == gt # NoTraj

(***************************************************************************)
(* traj_plot.py: actions                                                   *)
(***************************************************************************)
\* main, lines 193-199
TrajMain ==
    /\ prog = "traj" /\ pc = "main"
    /\ pc' = IF BagsRootExists THEN "iter" ELSE "done"
    /\ UNCHANGED <<sharedVars, scanned, loaded, saved, skipped, present_algos,
                   missing_algos, n_units, ui, trajLocals, drawn, benchVars>>

\* main, lines 201-207: an entry that is not an agent directory
MainSkip ==
    /\ prog = "traj" /\ pc = "iter" /\ ui <= n_units
    /\ ui' = ui + 1
    /\ UNCHANGED <<sharedVars, pc, scanned, loaded, saved, skipped, present_algos,
                   missing_algos, n_units, trajLocals, drawn, benchVars>>

\* main, line 211 calls plot_auv, which calls load_trajectories: lines 93-98
MainCallPlotAuv(ZipLists) ==
    /\ prog = "traj" /\ pc = "iter" /\ ui <= n_units
    /\ auv_name' = ui
    /\ \E zs \in ZipLists : zips' = zs
    /\ zi' = 1
    /\ est_trajs' = <<>>
    /\ gt_traj' = NoTraj
    /\ algo_label' = None
    /\ present_algos' = <<>>
    /\ missing_algos' = <<>>
    /\ drawn' = <<>>
    /\ scanned' = TRUE
    /\ pc' = "zips"
    /\ UNCHANGED <<sharedVars, loaded, saved, skipped, n_units, ui, benchVars>>

\* one iteration of the for loop of load_trajectories, lines 100-129
LoadStep ==
    /\ prog = "traj" /\ pc = "zips" /\ zi <= Len(zips)
    /\ LET z == zips[zi]
           label == Resolve(z.parent)
           trajs == ResTrajectories(z, zi)
       IN  IF ~HasMarker(z)
           THEN UNCHANGED <<algo_label, est_trajs, gt_traj, loaded>>
           ELSE /\ algo_label' = label
                /\ IF ~Recognized(label)
                   THEN UNCHANGED <<est_trajs, gt_traj, loaded>>
                   ELSE /\ loaded' = TRUE
                        /\ IF LoadRaises(z)
                           THEN UNCHANGED <<est_trajs, gt_traj>>
                           ELSE /\ gt_traj' = GtUpdate(gt_traj, trajs)
                                /\ est_trajs' = EstUpdate(est_trajs, label, trajs)
    /\ zi' = zi + 1
    /\ UNCHANGED <<sharedVars, pc, scanned, saved, skipped, present_algos,
                   missing_algos, n_units, ui, auv_name, zips, drawn, benchVars>>

\* load_trajectories returns, line 131; the rest of plot_auv, lines 137-190
PlotAuvFinish ==
    /\ prog = "traj" /\ pc = "zips" /\ zi > Len(zips)
    /\ present_algos' = DictKeys(est_trajs)
    /\ missing_algos' = MissingAlgos(DictKeys(est_trajs))
    /\ IF Renders(gt_traj)
       THEN /\ drawn' = DrawOrder(est_trajs) \o <<"GT">>
            /\ saved' = saved \cup {<<auv_name, "trajectories">>}
            /\ UNCHANGED skipped
       ELSE /\ skipped' = skipped \cup {auv_name}
            /\ UNCHANGED <<drawn, saved>>
    /\ pc' = "ret"
    /\ UNCHANGED <<sharedVars, scanned, loaded, n_units, ui, trajLocals, benchVars>>

\* plot_auv returns and its frame is gone; main's inner for loop advances
MainReturn ==
    /\ prog = "traj" /\ pc = "ret"
    /\ auv_name' = 0
    /\ zips' = <<>>
    /\ zi' = 0
    /\ algo_label' = None
    /\ est_trajs' = <<>>
    /\ gt_traj' = NoTraj
    /\ present_algos' = <<>>
    /\ missing_algos' = <<>>
    /\ drawn' = <<>>
    /\ ui' = ui + 1
    /\ pc' = "iter"
    /\ UNCHANGED <<sharedVars, scanned, loaded, saved, skipped, n_units, benchVars>>

\* main, line 213
MainDone ==
    /\ prog = "traj" /\ pc = "iter" /\ ui > n_units
    /\ pc' = "done"
    /\ UNCHANGED <<sharedVars, scanned, loaded, saved, skipped, present_algos,
                   missing_algos, n_units, ui, trajLocals, drawn, benchVars>>

TrajNext(ZipLists) ==
    \/ TrajMain
    \/ MainSkip
    \/ MainCallPlotAuv(ZipLists)
    \/ LoadStep
    \/ PlotAuvFinish
    \/ MainReturn
    \/ MainDone

(***************************************************************************)
(* traj_bench_plot.py: constants                                           *)
(***************************************************************************)
BENCH_ALGORITHMS == <<"FGO", "TM", "EKF", "UKF", "IEKF", "DVL">>

BENCH_NAME_MAPPING ==
    [k \in {"global", "global_tm", "global_ekf", "global_ukf", "global_iekf",
            "dvl"} |->
        CASE k = "global" -> "FGO"
          [] k = "global_tm" -> "TM"
          [] k = "global_ekf" -> "EKF"
          [] k = "global_ukf" -> "UKF"
          [] k = "global_iekf" -> "IEKF"
          [] k = "dvl" -> "DVL"]

\* (file name, axis label, suffix)
METRICS_CONFIG ==
    << <<"benchmark_ape_trans.csv", "APE Translation RMSE (m)", "ape_trans">>,
       <<"benchmark_ape_rot.csv", "APE Rotation RMSE (deg)", "ape_rot">>,
       <<"benchmark_rpe_trans.csv", "RPE Translation RMSE (m/m)", "rpe_trans">>,
       <<"benchmark_rpe_rot.csv", "RPE Rotation RMSE (deg/m)", "rpe_rot">> >>

MetricFiles == {METRICS_CONFIG[i][1] : i \in 1..Len(METRICS_CONFIG)}

(***************************************************************************)
(* traj_bench_plot.py: the metric files the glob can find                  *)
(***************************************************************************)
Row(key, rmse) == [key |-> key, rmse |-> rmse]

\* status: what pd.read_csv and row["rmse"] do with the file
\*   "ok"          the table is read and has an rmse column
\*   "unreadable"  pd.read_csv raises
\*   "nocol"       the table is read but has no rmse column: row["rmse"] raises
MetricFile(name, status, rows) == [name |-> name, status |-> status, rows |-> rows]

\* rmse values are in hundredths
T_example == <<Row("global", 120), Row("global_tm", 200), Row("unknown_algo", 990)>>
T_reversed == <<Row("global_tm", 210), Row("global", 130)>>
T_canonical == <<Row("dvl", 50), Row("FGO", 70)>>
T_unknown == <<Row("unknown_algo", 980)>>
T_late == <<Row("unknown_algo", 970), Row("global", 110)>>

CuratedFiles ==
    {MetricFile("benchmark_ape_trans.csv", "ok", t) :
        t \in {T_example, T_reversed, T_canonical, T_unknown}}
    \cup {MetricFile("benchmark_rpe_rot.csv", "ok", t) :
        t \in {T_example, T_canonical}}
    \cup {MetricFile("benchmark_ape_trans.csv", "unreadable", <<>>),
          MetricFile("benchmark_ape_trans.csv", "nocol", T_late),
          MetricFile("benchmark_rpe_rot.csv", "nocol", T_unknown),
          MetricFile("benchmark_summary.csv", "ok", T_example)}

CuratedFileLists == SeqsUpTo(CuratedFiles, MaxFiles)

(***************************************************************************)
(* traj_bench_plot.py: load_data and generate_plots                        *)
(***************************************************************************)
\* line 76: NAME_MAPPING.get(algo_key, algo_key)
MappingGet(key) ==
    IF key \in DOMAIN BENCH_NAME_MAPPING THEN BENCH_NAME_MAPPING[key] ELSE key

\* line 77
InCatalog(label) == label \in Range(BENCH_ALGORITHMS)

Record(label, rmse) == [Algorithm |-> label, RMSE |-> rmse]

\* the rows appended with the catalog test left out
RECURSIVE Appended_noGate(_, _)
Appended_noGate(rows, hasRmse) ==
    IF rows = <<>> THEN <<>>
    ELSE IF ~hasRmse THEN <<>>
    ELSE <<Record(MappingGet(Head(rows).key), Head(rows).rmse)>>
         \o Appended_noGate(Tail(rows), hasRmse)

\* the rows appended with a missing rmse column read as 0 instead of raising
RECURSIVE Appended_noRaise(_, _)
Appended_noRaise(rows, hasRmse) ==
    IF rows = <<>> THEN <<>>
    ELSE IF InCatalog(MappingGet(Head(rows).key))
    THEN <<Record(MappingGet(Head(rows).key), IF hasRmse THEN Head(rows).rmse ELSE 0)>>
         \o Appended_noRaise(Tail(rows), hasRmse)
    ELSE Appended_noRaise(Tail(rows), hasRmse)

\* lines 75-80: the records appended by the row loop until it ends or
\* row["rmse"] raises; what was appended before the exception stays
RECURSIVE Appended(_, _)
Appended(rows, hasRmse) ==
    IF rows = <<>> THEN <<>>
    ELSE IF InCatalog(MappingGet(Head(rows).key))
    THEN (IF ~hasRmse THEN <<>>
          ELSE <<Record(MappingGet(Head(rows).key), Head(rows).rmse)>>
               \o Appended(Tail(rows), hasRmse))
    ELSE Appended(Tail(rows), hasRmse)

\* lines 73-82: the try block for one file
FileRecords(f) ==
    IF f.status = "unreadable" THEN <<>>
    ELSE Appended(f.rows, f.status = "ok")

\* line 84
DataMap(ds) == [k \in {n \in DOMAIN ds : ds[n] # <<>>} |-> ds[k]]

Labels(df) == [i \in 1..Len(df) |-> df[i].Algorithm]

\* lines 99-101
PresentAlgos(df) == SelectSeq(BENCH_ALGORITHMS, LAMBDA a : a \in Range(Labels(df)))
MissingFrom(df) == SelectSeq(BENCH_ALGORITHMS, LAMBDA a : a \notin Range(Labels(df)))

\* lines 112-114: a label outside the categories becomes NaN
Categorical(df, cats) ==
    [i \in 1..Len(df) |->
        Record(IF df[i].Algorithm \in Range(cats) THEN df[i].Algorithm ELSE "NaN",
               df[i].RMSE)]

RECURSIVE ByCategory(_, _)
ByCategory(df, cats) ==
    IF cats = <<>> THEN SelectSeq(df, LAMBDA r : r.Algorithm = "NaN")
    ELSE SelectSeq(df, LAMBDA r : r.Algorithm = Head(cats))
         \o ByCategory(df, Tail(cats))

SortValues_unsorted(df, cats) == df

\* line 115: rows ordered by category code, NaN last.  Rows of one label
\* keep their order here; only the order of the labels is specified.
SortValues(df, cats) == ByCategory(df, cats)

\* main, lines 147-154, and load_data, lines 63-66
BenchMain ==
    /\ prog = "bench" /\ pc = "main"
    /\ IF BagsRootExists
       THEN /\ \E fs \in CuratedFileLists : files' = fs
            /\ fi' = 1
            /\ data_store' = [k \in MetricFiles |-> <<>>]
            /\ plotted' = [k \in MetricFiles |-> <<>>]
            /\ scanned' = TRUE
            /\ pc' = "files"
       ELSE /\ pc' = "done"
            /\ UNCHANGED <<files, fi, data_store, plotted, scanned>>
    /\ UNCHANGED <<sharedVars, loaded, saved, skipped, present_algos, missing_algos,
                   n_units, ui, trajLocals, drawn, mi>>

\* one iteration of the for loop of load_data, lines 68-82
LoadDataStep ==
    /\ prog = "bench" /\ pc = "files" /\ fi <= Len(files)
    /\ LET f == files[fi]
       IN  IF f.name \notin DOMAIN data_store
           THEN UNCHANGED <<data_store, loaded>>
           ELSE /\ loaded' = TRUE
                /\ data_store' =
                       [data_store EXCEPT ![f.name] = @ \o FileRecords(f)]
    /\ fi' = fi + 1
    /\ UNCHANGED <<sharedVars, pc, scanned, saved, skipped, present_algos, missing_algos,
                   n_units, ui, trajLocals, drawn, files, mi, plotted>>

\* load_data returns, line 84; generate_plots begins, lines 88-90
GenerateStart ==
    /\ prog = "bench" /\ pc = "files" /\ fi > Len(files)
    /\ IF DOMAIN DataMap(data_store) = {}
       THEN pc' = "done" /\ UNCHANGED mi
       ELSE pc' = "plots" /\ mi' = 1
    /\ UNCHANGED <<sharedVars, scanned, loaded, saved, skipped, present_algos,
                   missing_algos, n_units, ui, trajLocals, drawn, files, fi,
                   data_store, plotted>>

\* one iteration of the loop over METRICS_CONFIG, lines 92-144
PlotStep ==
    /\ prog = "bench" /\ pc = "plots" /\ mi <= Len(METRICS_CONFIG)
    /\ LET filename == METRICS_CONFIG[mi][1]
           suffix == METRICS_CONFIG[mi][3]
           data_map == DataMap(data_store)
       IN  IF filename \notin DOMAIN data_map
           THEN UNCHANGED <<present_algos, missing_algos, plotted, saved>>
           ELSE LET df == data_map[filename]
                    present == PresentAlgos(df)
                IN  /\ present_algos' = present
                    /\ missing_algos' = MissingFrom(df)
                    /\ IF present = <<>>
                       THEN UNCHANGED <<plotted, saved>>
                       ELSE /\ plotted' =
                                   [plotted EXCEPT ![filename] =
                                       SortValues(Categorical(df, present), present)]
                            /\ saved' = saved \cup {<<"violin", suffix>>,
                                                    <<"box", suffix>>}
    /\ mi' = mi + 1
    /\ UNCHANGED <<sharedVars, pc, scanned, loaded, skipped, n_units, ui,
                   trajLocals, drawn, files, fi, data_store>>

\* generate_plots returns; main, line 158
PlotsDone ==
    /\ prog = "bench" /\ pc = "plots" /\ mi > Len(METRICS_CONFIG)
    /\ pc' = "done"
    /\ UNCHANGED <<sharedVars, scanned, loaded, saved, skipped, present_algos,
                   missing_algos, n_units, ui, trajLocals, drawn, benchVars>>

BenchNext ==
    \/ BenchMain
    \/ LoadDataStep
    \/ GenerateStart
    \/ PlotStep
    \/ PlotsDone

InitCommon ==
    /\ root_exists \in BOOLEAN
    /\ pc = "main"
    /\ scanned = FALSE
    /\ loaded = FALSE
    /\ saved = {}
    /\ skipped = {}
    /\ present_algos = <<>>
    /\ missing_algos = <<>>
    /\ n_units \in 0..NumUnits
    /\ ui = 1
    /\ auv_name = 0
    /\ zips = <<>>
    /\ zi = 0
    /\ algo_label = None
    /\ est_trajs = <<>>
    /\ gt_traj = NoTraj
    /\ drawn = <<>>
    /\ files = <<>>
    /\ fi = 0
    /\ data_store = <<>>
    /\ mi = 0
    /\ plotted = <<>>

InitNames == prog = "traj" /\ InitCommon

\* the trajectory script over directory names generated from tokens
SpecNames == InitNames /\ [][TrajNext(TokenZipLists)]_vars

Init == prog \in {"traj", "bench"} /\ InitCommon

Next == TrajNext(CuratedZipLists) \/ BenchNext

\* either script over the curated inputs
Spec == Init /\ [][Next]_vars

(***************************************************************************)
(* Properties of the metric pipeline                                       *)
(***************************************************************************)
ApeFile == "benchmark_ape_trans.csv"

BenchStarted == prog = "bench" /\ fi >= 1

MappingKeys == DOMAIN BENCH_NAME_MAPPING

\* record r comes from a row of a processed file named k whose key is in keys
HasSourceRow(r, k, keys) ==
    \E j \in 1..(fi - 1) :
        /\ files[j].name = k
        /\ \E i \in 1..Len(files[j].rows) :
              LET row == files[j].rows[i]
              IN  /\ row.key \in keys
                  /\ r.RMSE = row.rmse
                  /\ r.Algorithm = (IF row.key \in MappingKeys
                                    THEN BENCH_NAME_MAPPING[row.key]
                                    ELSE row.key)

\* number of rows with a key in keys over the first n files, those named k
RECURSIVE CountRows(_, _, _)
CountRows(k, keys, n) ==
    IF n = 0 THEN 0
    ELSE CountRows(k, keys, n - 1)
         + (IF files[n].name = k
            THEN Cardinality({i \in 1..Len(files[n].rows) :
                                  files[n].rows[i].key \in keys})
            ELSE 0)

\* C1 as stated: every record of every metric table comes from a row whose
\* key is a key of NAME_MAPPING, so a row keyed by a canonical label adds none.
C1_Original ==
    BenchStarted =>
        \A k \in MetricFiles : \A n \in 1..Len(data_store[k]) :
            HasSourceRow(data_store[k][n], k, MappingKeys)

\* C1 amended: every record of every metric table comes from a row whose key
\* is a key of NAME_MAPPING or is itself a catalog label, and carries that
\* row's mapped label; rows with any other key add no record.
C1_Amended ==
    BenchStarted =>
        \A k \in MetricFiles :
            /\ \A n \in 1..Len(data_store[k]) :
                  HasSourceRow(data_store[k][n], k,
                               MappingKeys \cup Range(BENCH_ALGORITHMS))
            /\ Len(data_store[k])
                  <= CountRows(k, MappingKeys \cup Range(BENCH_ALGORITHMS), fi - 1)

\* a row keyed "FGO" has added a record, and a table with an unknown_algo row
\* has been processed
C1_Witness ==
    /\ BenchStarted
    /\ \E n \in 1..Len(data_store[ApeFile]) :
          data_store[ApeFile][n] = Record("FGO", 70)
    /\ \E j \in 1..(fi - 1) : files[j] = MetricFile(ApeFile, "ok", T_example)

\* C2: every record of every metric table, and every key of the estimated-
\* trajectory mapping, carries a label of the catalog.
C2_LabelsInCatalog ==
    /\ BenchStarted =>
          \A k \in MetricFiles :
              /\ \A n \in 1..Len(data_store[k]) :
                    data_store[k][n].Algorithm \in Range(BENCH_ALGORITHMS)
              /\ \A n \in 1..Len(plotted[k]) :
                    plotted[k][n].Algorithm \in Range(BENCH_ALGORITHMS)
    /\ prog = "traj" =>
          \A n \in 1..Len(est_trajs) : est_trajs[n].key \in Range(ALGORITHMS)

\* load_trajectories has gone through an archive of an unrecognized directory
\* that passes the marker filter, and has stored a trajectory
C2_Witness ==
    /\ prog = "traj" /\ pc = "ret"
    /\ Len(est_trajs) > 0
    /\ \E j \in 1..Len(zips) :
          zips[j] = Archive(p_gt, f_ape, "full")

(***************************************************************************)
(* Properties of load_trajectories                                         *)
(***************************************************************************)
InLoad == prog = "traj" /\ pc \in {"zips", "ret"} /\ zi >= 1

\* archive j is past the filter and the catalog test and loads without error
Loads(j) ==
    /\ HasMarker(zips[j])
    /\ Resolve(zips[j].parent) \in Range(ALGORITHMS)
    /\ zips[j].res # "fail"

GivesEst(j, L) ==
    Loads(j) /\ Resolve(zips[j].parent) = L /\ zips[j].res # "noest"

GivesRef(j) == Loads(j) /\ zips[j].res # "noref"

\* C3: the trajectory stored for a label is the estimate of the last archive
\* gone through so far that resolves to the label, loads without error and
\* holds its estimate entry; there is none when no archive does.
C3_LastWriteWins ==
    InLoad =>
        \A L \in Range(ALGORITHMS) :
            LET givers == {j \in 1..(zi - 1) : GivesEst(j, L)}
            IN  IF givers = {}
                THEN ~DictHas(est_trajs, L)
                ELSE /\ DictHas(est_trajs, L)
                     /\ DictGet(est_trajs, L) =
                            [kind |-> "est",
                             src |-> CHOOSE j \in givers :
                                         \A h \in givers : h <= j]

\* two archives of one label were gone through and the later one is stored
C3_Witness ==
    /\ InLoad /\ zi = 3
    /\ GivesEst(1, "FGO") /\ GivesEst(2, "FGO")
    /\ DictGet(est_trajs, "FGO") = [kind |-> "est", src |-> 2]

\* C4: the ground truth is the reference of the first archive gone through
\* so far that passes the filter, resolves to a catalog label, loads without
\* error and holds its reference entry; it is absent when there is none.
C4_FirstGroundTruth ==
    InLoad =>
        LET givers == {j \in 1..(zi - 1) : GivesRef(j)}
        IN  IF givers = {}
            THEN gt_traj = NoTraj
            ELSE gt_traj = [kind |-> "ref",
                            src |-> CHOOSE j \in givers :
                                        \A h \in givers : j <= h]

\* two archives with a reference were gone through and the first one is kept
C4_Witness ==
    /\ InLoad /\ zi = 3
    /\ GivesRef(1) /\ GivesRef(2)
    /\ gt_traj = [kind |-> "ref", src |-> 1]

(***************************************************************************)
(* Properties of the data handed to the plotting calls                     *)
(***************************************************************************)
CatalogIndex(a) == CHOOSE i \in 1..Len(ALGORITHMS) : ALGORITHMS[i] = a

IsCatalogLabels(ls) == \A i \in 1..Len(ls) : ls[i] \in Range(ALGORITHMS)

NonDecreasing(ls) ==
    \A i, j \in 1..Len(ls) : i < j => CatalogIndex(ls[i]) <= CatalogIndex(ls[j])

Increasing(ls) ==
    \A i, j \in 1..Len(ls) : i < j => CatalogIndex(ls[i]) < CatalogIndex(ls[j])

MetricIndex(k) == CHOOSE i \in 1..Len(METRICS_CONFIG) : METRICS_CONFIG[i][1] = k

\* generate_plots is past the metric kind of file name k
PastMetric(k) == prog = "bench" /\ pc \in {"plots", "done"} /\ mi > MetricIndex(k)

\* C5: the labels of the data frame handed to seaborn for a metric kind with
\* data are in catalog order and are the labels of that kind's table; the
\* labels plot_auv draws are the keys of the estimated trajectories in
\* catalog order, followed by the ground truth.
C5_CatalogOrder ==
    /\ \A k \in MetricFiles :
          (PastMetric(k) /\ data_store[k] # <<>>) =>
              /\ IsCatalogLabels(Labels(plotted[k]))
              /\ NonDecreasing(Labels(plotted[k]))
              /\ Len(plotted[k]) = Len(data_store[k])
              /\ Range(plotted[k]) = Range(data_store[k])
    /\ (prog = "traj" /\ pc = "ret" /\ gt_traj # NoTraj) =>
          /\ Len(drawn) = Len(est_trajs) + 1
          /\ drawn[Len(drawn)] = "GT"
          /\ LET algos == SubSeq(drawn, 1, Len(drawn) - 1)
             IN  /\ IsCatalogLabels(algos)
                 /\ Increasing(algos)
                 /\ Range(algos) = Range(DictKeys(est_trajs))

\* a table whose records arrived out of catalog order has been plotted
C5_Witness ==
    /\ PastMetric(ApeFile)
    /\ Len(data_store[ApeFile]) >= 3
    /\ ~NonDecreasing(Labels(data_store[ApeFile]))
    /\ plotted[ApeFile] # <<>>

\* C6: the present and the missing labels computed for a metric kind or an
\* agent are disjoint, cover the catalog, and present holds the labels with
\* a record, or with a stored estimated trajectory.
C6_Coverage ==
    /\ (prog = "bench" /\ pc = "plots" /\ mi > 1
        /\ data_store[METRICS_CONFIG[mi - 1][1]] # <<>>) =>
          /\ Range(present_algos) \cap Range(missing_algos) = {}
          /\ Range(present_algos) \cup Range(missing_algos)
                = Range(BENCH_ALGORITHMS)
          /\ Range(present_algos)
                = Range(Labels(data_store[METRICS_CONFIG[mi - 1][1]]))
    /\ (prog = "traj" /\ pc = "ret") =>
          /\ Range(present_algos) \cap Range(missing_algos) = {}
          /\ Range(present_algos) \cup Range(missing_algos) = Range(ALGORITHMS)
          /\ Range(present_algos) = Range(DictKeys(est_trajs))

\* an agent with the first catalog label missing and another one present
C6_Witness ==
    /\ prog = "traj" /\ pc = "ret"
    /\ "EKF" \in Range(present_algos)
    /\ "FGO" \in Range(missing_algos)

(***************************************************************************)
(* Error handling                                                          *)
(***************************************************************************)
\* the records the rows of a table give: those whose key is a mapping key or
\* a catalog label
RowRecords(rows) ==
    LET kept == SelectSeq(rows, LAMBDA r :
                    r.key \in MappingKeys \cup Range(BENCH_ALGORITHMS))
    IN  [i \in 1..Len(kept) |->
            Record(IF kept[i].key \in MappingKeys
                   THEN BENCH_NAME_MAPPING[kept[i].key] ELSE kept[i].key,
                   kept[i].rmse)]

\* the records of the valid files named k among the first n files
RECURSIVE ValidOnly(_, _)
ValidOnly(k, n) ==
    IF n = 0 THEN <<>>
    ELSE ValidOnly(k, n - 1)
         \o (IF files[n].name = k /\ files[n].status = "ok"
             THEN RowRecords(files[n].rows) ELSE <<>>)

\* C7: the metric tables hold the records of the valid files gone through
\* and nothing of a file that cannot be read or lacks the rmse column, and
\* load_data goes through every file found.
C7_Isolation ==
    BenchStarted =>
        /\ \A k \in MetricFiles : data_store[k] = ValidOnly(k, fi - 1)
        /\ pc \in {"plots", "done"} => fi = Len(files) + 1

\* a file whose row loop raises was followed by a valid file that added records
C7_Witness ==
    /\ BenchStarted /\ fi >= 3
    /\ files[1] = MetricFile(ApeFile, "nocol", T_late)
    /\ files[2] = MetricFile(ApeFile, "ok", T_reversed)
    /\ Len(data_store[ApeFile]) = 2

\* C8: after plot_auv, the agent's plot is saved exactly when a ground truth
\* was found, whatever labels are missing; without one nothing is drawn and
\* the agent is reported; main goes on to the entries that remain.
C8_NoGroundTruth ==
    /\ (prog = "traj" /\ pc = "ret") =>
          /\ (<<auv_name, "trajectories">> \in saved) <=> (gt_traj # NoTraj)
          /\ (gt_traj = NoTraj) => (drawn = <<>> /\ auv_name \in skipped)
          /\ (gt_traj # NoTraj) => (drawn # <<>> /\ auv_name \notin skipped)
          /\ auv_name = ui
    /\ (prog = "traj" /\ pc = "done" /\ root_exists) => ui = n_units + 1
    /\ prog = "traj" =>
          /\ \A e \in saved : e[1] \in 1..(ui - (IF pc = "ret" THEN 0 ELSE 1))
          /\ \A e \in saved : e[1] \notin skipped

\* the first agent had no ground truth; the second is rendered with no
\* estimated trajectory at all
C8_Witness ==
    /\ prog = "traj" /\ pc = "ret"
    /\ auv_name = 2
    /\ 1 \in skipped
    /\ <<2, "trajectories">> \in saved
    /\ est_trajs = <<>>
    /\ Len(missing_algos) = Len(ALGORITHMS)

\* C9: without the input root directory nothing is scanned, opened, drawn
\* or saved, and main is at its start or has returned.
C9_MissingRoot ==
    ~root_exists =>
        /\ ~scanned
        /\ ~loaded
        /\ saved = {}
        /\ drawn = <<>>
        /\ plotted = <<>>
        /\ pc \in {"main", "done"}

\* main has returned and the root directory does not exist
C9_Witness == ~root_exists /\ pc = "done"

(***************************************************************************)
(* The substring normalizer                                                *)
(***************************************************************************)
\* C10: an archive whose directory name contains `iekf` resolves to FGO when
\* the name contains `fgo`, else to TM when it contains `tm`, else to EKF;
\* IEKF is never a key of the estimated trajectories.
C10_IekfShadowed ==
    /\ (InLoad /\ zi >= 2 /\ HasMarker(zips[zi - 1])
        /\ Contains(k_iekf, zips[zi - 1].parent)) =>
          algo_label = (IF Contains(k_fgo, zips[zi - 1].parent) THEN "FGO"
                        ELSE IF Contains(k_tm, zips[zi - 1].parent) THEN "TM"
                        ELSE "EKF")
    /\ ~DictHas(est_trajs, "IEKF")

\* an `iekf` archive has replaced the trajectory of an `ekf` archive
C10_Witness ==
    /\ InLoad /\ zi = 3
    /\ zips[1].parent = k_ekf
    /\ zips[2].parent = k_iekf
    /\ DictGet(est_trajs, "EKF") = [kind |-> "est", src |-> 2]

====
